---------------------------- MODULE Spec2Model ----------------------------
(***************************************************************************)
(* News storage backends of twisted.news.database: the Article model, the  *)
(* pickle-file backend (PickleStorage), the dirdbm backend (NewsShelf) and *)
(* the posting transaction of the SQL backend (NewsStorageAugmentation).   *)
(* Python strings are TLA+ strings (sequences of characters); every string *)
(* operation the code performs is computed character by character.         *)
(***************************************************************************)
EXTENDS Integers, Sequences, FiniteSets, TLC

(***************************************************************************)
(* Bounds of the model.                                                    *)
(***************************************************************************)
MaxPosts == 2      \* postRequest calls per behaviour
MaxTime == 1       \* largest value time.time() returns
MaxStores == 2     \* PickleStorage instances constructed per process

(***************************************************************************)
(* Python string primitives.                                               *)
(***************************************************************************)
Min2(a, b) == IF a < b THEN a ELSE b
Max2(a, b) == IF a > b THEN a ELSE b

\* normalisation of a slice bound (negative bounds count from the end)
PyIdx(n, len) == IF n < 0 THEN Max2(0, len + n) ELSE Min2(n, len)

\* s[lo:hi]
PySlice(s, lo, hi) ==
    LET l == PyIdx(lo, Len(s))
        h == PyIdx(hi, Len(s))
    IN  IF l >= h THEN "" ELSE SubSeq(s, l + 1, h)

\* s[lo:]
PyFrom(s, lo) == PySlice(s, lo, Len(s))

\* s[:hi]
PyTo(s, hi) == PySlice(s, 0, hi)

\* TRUE iff pat occurs in s at 0-based offset p
OccursAt(s, pat, p) ==
    /\ p + Len(pat) <= Len(s)
    /\ SubSeq(s, p + 1, p + Len(pat)) = pat

RECURSIVE FindFrom(_, _, _)
FindFrom(s, pat, p) ==
    IF p + Len(pat) > Len(s) THEN -1
    ELSE IF OccursAt(s, pat, p) THEN p
    ELSE FindFrom(s, pat, p + 1)

\* s.find(pat): 0-based offset of the first occurrence, -1 when there is none
Find(s, pat) == FindFrom(s, pat, 0)

RECURSIVE SplitSep(_, _)
\* s.split(sep): always at least one piece, empty pieces are kept
SplitSep(s, sep) ==
    LET p == Find(s, sep)
    IN  IF p = -1 THEN <<s>>
        ELSE <<PyTo(s, p)>> \o SplitSep(PyFrom(s, p + Len(sep)), sep)

\* s.split(sep, 1)
SplitOnce(s, sep) ==
    LET p == Find(s, sep)
    IN  IF p = -1 THEN <<s>>
        ELSE <<PyTo(s, p), PyFrom(s, p + Len(sep))>>

IsSpace(c) == c \in {" ", "\t", "\n", "\r"}

RECURSIVE SplitWS(_, _)
\* s.split(): pieces between runs of whitespace, no empty piece
SplitWS(s, cur) ==
    IF s = "" THEN (IF cur = "" THEN <<>> ELSE <<cur>>)
    ELSE IF IsSpace(Head(s))
         THEN (IF cur = "" THEN <<>> ELSE <<cur>>) \o SplitWS(Tail(s), "")
         ELSE SplitWS(Tail(s), cur \o Head(s))

PySplit(s) == SplitWS(s, "")

RECURSIVE Count(_, _)
\* s.count(c) for a one-character c
Count(s, c) ==
    IF s = "" THEN 0
    ELSE (IF Head(s) = c THEN 1 ELSE 0) + Count(Tail(s), c)

UpperChars == "ABCDEFGHIJKLMNOPQRSTUVWXYZ"
LowerChars == "abcdefghijklmnopqrstuvwxyz"

LowerTable ==
    [c \in {SubSeq(UpperChars, i, i) : i \in 1..Len(UpperChars)} |->
        LET p == Find(UpperChars, c)
        IN  SubSeq(LowerChars, p + 1, p + 1)]

LowerChar(c) == IF c \in DOMAIN LowerTable THEN LowerTable[c] ELSE c

RECURSIVE Lower(_)
\* s.lower()
Lower(s) == IF s = "" THEN "" ELSE LowerChar(Head(s)) \o Lower(Tail(s))

DigitChars == "0123456789"

RECURSIVE Str(_)
\* str(n) for a natural number n
Str(n) ==
    IF n < 10 THEN SubSeq(DigitChars, n + 1, n + 1)
    ELSE Str(n \div 10) \o SubSeq(DigitChars, (n % 10) + 1, (n % 10) + 1)

RECURSIVE Join(_, _)
\* sep.join(parts)
Join(sep, parts) ==
    IF Len(parts) = 0 THEN ""
    ELSE IF Len(parts) = 1 THEN parts[1]
    ELSE parts[1] \o sep \o Join(sep, Tail(parts))

(***************************************************************************)
(* Environment: host name, clock rendering, digest.                        *)
(***************************************************************************)
\* socket.gethostname()
HostName == "host"

\* time.ctime(t) for a small number of seconds t after the epoch (UTC)
ctime(t) == "Thu Jan  1 00:00:0" \o Str(t) \o " 1970"

EncChar(c) ==
    CASE c = "\r" -> "_r"
      [] c = "\n" -> "_n"
      [] c = " "  -> "_s"
      [] c = "\t" -> "_t"
      [] c = ":"  -> "_c"
      [] c = "_"  -> "__"
      [] OTHER    -> c

RECURSIVE EncStr(_)
EncStr(s) == IF s = "" THEN "" ELSE EncChar(Head(s)) \o EncStr(Tail(s))

\* md5(s).hexdigest(): a digest without white space, one per input
hexdigest(s) == "md5" \o EncStr(s)

(***************************************************************************)
(* Ordered dictionaries (insertion order, as Python's dict): a sequence of *)
(* records [key, item].                                                    *)
(***************************************************************************)
DictKeys(d) == { d[i].key : i \in 1..Len(d) }

DictHas(d, k) == \E i \in 1..Len(d) : d[i].key = k

DictPos(d, k) == CHOOSE i \in 1..Len(d) : d[i].key = k

DictGet(d, k) == d[DictPos(d, k)].item

\* d[k] = v: an existing key keeps its place, a new key goes last
DictSet(d, k, v) ==
    IF DictHas(d, k)
    THEN [d EXCEPT ![DictPos(d, k)] = [key |-> k, item |-> v]]
    ELSE Append(d, [key |-> k, item |-> v])

(***************************************************************************)
(* Article.  headers is the ordered dictionary from the lower-cased header *)
(* name to the tuple the line split into: <<name, value>>, or <<line>> for *)
(* a line without ": ".  exc is the exception the constructor raised       *)
(* ("" when none).                                                         *)
(***************************************************************************)
OVERVIEW_FMT ==
    <<"Subject", "From", "Date", "Message-ID", "References",
      "Bytes", "Lines", "Xref">>

\* header.lower() for the header names the code asks for, computed once
HeaderKey ==
    [n \in {"Newsgroups", "Approved", "Subject", "From", "Date", "Message-ID",
            "References", "Bytes", "Lines", "Xref"} |-> Lower(n)]

LowerName(header) ==
    IF header \in DOMAIN HeaderKey THEN HeaderKey[header] ELSE Lower(header)

\* Article.getHeader raises IndexError on a header stored as a 1-tuple
getHeaderRaises(a, header) ==
    /\ DictHas(a.headers, LowerName(header))
    /\ Len(DictGet(a.headers, LowerName(header))) < 2

\* Article.getHeader
getHeader(a, header) ==
    LET h == LowerName(header)
    IN  IF DictHas(a.headers, h) THEN DictGet(a.headers, h)[2] ELSE ""

\* Article.putHeader
putHeader(a, header, value) ==
    [a EXCEPT !.headers =
        DictSet(a.headers, LowerName(header), <<header, value>>)]

RECURSIVE ParseHead(_, _, _, _)
\* the loop of Article.__init__ over head.split('\r\n'); hasHeader is FALSE
\* while the local variable header is still None
ParseHead(lines, headers, hasHeader, header) ==
    IF Len(lines) = 0 THEN [exc |-> "", headers |-> headers]
    ELSE LET line == lines[1]
         IN  IF PySlice(line, 0, 1) \in {"", " ", "\t"}
             THEN IF ~hasHeader
                  THEN [exc |-> "KeyError", headers |-> headers]
                  ELSE LET i == DictGet(headers, header)
                       IN  IF Len(i) < 2
                           THEN [exc |-> "IndexError", headers |-> headers]
                           ELSE ParseHead(Tail(lines),
                                    DictSet(headers, header,
                                        <<i[1], i[2] \o "\r\n" \o line>>),
                                    TRUE, header)
             ELSE LET i == SplitOnce(line, ": ")
                      h == Lower(i[1])
                  IN  ParseHead(Tail(lines), DictSet(headers, h, i), TRUE, h)

\* a step that puts the header whether or not the article has it
DefaultHeaderAlways(a, name, value) ==
    IF a.exc # "" THEN a
    ELSE IF getHeaderRaises(a, name) THEN [a EXCEPT !.exc = "IndexError"]
    ELSE putHeader(a, name, value)

\* one "if not self.getHeader(name): self.putHeader(name, value)" step of
\* Article.__init__; an earlier exception is passed on
DefaultHeader(a, name, value) ==
    IF a.exc # "" THEN a
    ELSE IF getHeaderRaises(a, name) THEN [a EXCEPT !.exc = "IndexError"]
    ELSE IF getHeader(a, name) = "" THEN putHeader(a, name, value)
    ELSE a

\* Article(head, body), constructed when time.time() returns t
Article(head, body, t) ==
    LET p  == ParseHead(SplitSep(head, "\r\n"), <<>>, FALSE, "")
        a0 == [exc |-> p.exc, headers |-> p.headers, body |-> body]
        id == hexdigest(Str(t) \o body) \o "@" \o HostName
        a1 == DefaultHeader(a0, "Message-ID", "<" \o id \o ">")
        a2 == DefaultHeader(a1, "Bytes", Str(Len(body)))
        a3 == DefaultHeader(a2, "Lines", Str(Count(body, "\n")))
    IN  DefaultHeader(a3, "Date", ctime(t))

RECURSIVE HeaderLines(_)
HeaderLines(d) ==
    IF Len(d) = 0 THEN <<>>
    ELSE <<d[1].item[1] \o ": " \o d[1].item[2]>> \o HeaderLines(Tail(d))

\* Article.textHeaders raises IndexError on a header stored as a 1-tuple
textHeadersRaises(a) == \E i \in 1..Len(a.headers) : Len(a.headers[i].item) < 2

\* Article.textHeaders
textHeaders(a) == Join("\r\n", HeaderLines(a.headers)) \o "\r\n"

\* Article.overview raises IndexError on an overview header stored as a 1-tuple
overviewRaises(a) ==
    \E k \in 1..Len(OVERVIEW_FMT) : getHeaderRaises(a, OVERVIEW_FMT[k])

\* Article.overview
overview(a) == [k \in 1..Len(OVERVIEW_FMT) |-> getHeader(a, OVERVIEW_FMT[k])]

(***************************************************************************)
(* Inputs: the messages handed to postRequest, the group names, and the    *)
(* arguments the backends are constructed with.                            *)
(***************************************************************************)
MsgPlain     == "Newsgroups: a\r\n\r\nhello\nworld"
MsgCross     == "Newsgroups: a b\r\nMessage-ID: <1@h>\r\nSubject: s\r\n\r\nhi"
MsgMixed     == "Newsgroups: a x\r\nApproved: yes\r\n\r\nhi"
MsgUnknown   == "Newsgroups: x\r\n\r\nhi"
MsgEmptyAppr == "Newsgroups: a\r\nApproved: \r\n\r\nhi"
MsgTwice     == "Newsgroups: a a\r\nApproved: yes\r\n\r\nhi"
MsgApproved  == "Newsgroups: a\r\nApproved: yes\r\nSubject: s\r\n\r\nhi"
MsgNoSep     == "Newsgroups: a\r\n"
MsgNoGroups  == "Subject: s\r\n\r\nhi"
MsgNoHead    == "\r\n\r\nhi"
MsgSameId    ==
    "Newsgroups: b\r\nMessage-ID: <1@h>\r\nBytes: 9\r\nLines: 7\r\nDate: d\r\n\r\nhi"

Messages ==
    { MsgPlain, MsgCross, MsgMixed, MsgUnknown, MsgEmptyAppr, MsgTwice,
      MsgApproved, MsgNoSep, MsgNoGroups, MsgNoHead, MsgSameId }

\* group names that occur in Newsgroups headers; "x" is never a group
Names == {"a", "b", "x"}

Times == 0..MaxTime

\* the head/body cut of postRequest, and the Article built from it
Cleave(message) == Find(message, "\r\n\r\n")

Parse(message, t) ==
    Article(PyTo(message, Cleave(message)),
            PyFrom(message, Cleave(message) + 4), t)

Parsed == [m \in Messages |-> [t \in Times |-> Parse(m, t)]]

\* the mailhost and sender arguments of the constructors ("None": absent)
MailHostArg == "mx.host"
SenderArg == "None"

(***************************************************************************)
(* State.                                                                  *)
(***************************************************************************)
VARIABLES
    backend,    \* "pickle", "shelf" or "sql": the backend this behaviour runs;
                \* "both": a PickleStorage and a NewsShelf given the same posts
    db,         \* PickleStorage.db: "groups", "moderators", one key per group
    heap,       \* the Article objects db refers to; db holds their positions
    datafile,   \* contents of PickleStorage.datafile: the last pickle.dump
    sharedDBs,  \* keys of PickleStorage.sharedDBs; the value of a key is db
    stores,     \* the PickleStorage instances: what self.db of each refers to
    dbm,        \* NewsShelf.dbm: the four tables of the shelf
    strKeys,    \* TRUE iff the key store accepts a text key for a bytes key
    sql,        \* the database of NewsStorageAugmentation: tables, sequence
    txs,        \* the postRequest calls made on it, each with its transaction
    now,        \* last value time.time() returned
    sent,       \* the sendmail calls made so far
    nposts,     \* number of postRequest calls so far
    last        \* the last postRequest call: message and result

vars ==
    <<backend, db, heap, datafile, sharedDBs, stores, dbm, strKeys, sql, txs,
      now, sent, nposts, last>>

pickleVars == <<db, heap, datafile, sharedDBs, stores>>
shelfVars == <<dbm, strKeys>>
sqlVars == <<sql, txs>>

NoPost == [message |-> "", kind |-> "none", val |-> "", diverted |-> FALSE]

(***************************************************************************)
(* _ModerationMixin.notifyModerators: the sendmail call it makes.  The     *)
(* MIME text is kept as its parts.                                         *)
(***************************************************************************)
notifyModeratorsRaises(article) == getHeaderRaises(article, "Subject")

notifyModerators(moderators, article) ==
    LET group   == getHeader(article, "Newsgroups")
        subject == getHeader(article, "Subject")
        sender  == IF SenderArg = "None"
                   THEN "twisted-news@" \o HostName
                   ELSE SenderArg
    IN  [ mailhost |-> MailHostArg,
          sender   |-> sender,
          to       |-> moderators,
          msg      |-> [ From    |-> sender,
                         To      |-> Join(", ", moderators),
                         Subject |-> "Moderate new " \o group
                                        \o " message: " \o subject,
                         payload |-> article ] ]

(***************************************************************************)
(* PickleStorage.                                                          *)
(***************************************************************************)
EmptyDict == <<>>

RECURSIVE SeqToSet(_)
SeqToSet(q) == IF Len(q) = 0 THEN {} ELSE {q[1]} \cup SeqToSet(Tail(q))

SetMax(S) == CHOOSE x \in S : \A y \in S : y <= x
SetMin(S) == CHOOSE x \in S : \A y \in S : x <= y

\* PickleStorage.load when the file does not exist: the seeded structure
PickleLoad(groups, moderators) ==
    [ k \in {"groups", "moderators"} \cup SeqToSet(groups) |->
        IF k = "groups" THEN groups
        ELSE IF k = "moderators" THEN moderators
        ELSE EmptyDict ]

\* the path the PickleStorage instances are constructed on
FileName == "news.pickle"

\* self.db of an instance that refers to the object in sharedDBs
Shared == [shared |-> TRUE, db |-> <<>>, heap |-> <<>>]

\* PickleStorage.load that goes to the file without a look at sharedDBs:
\* self.db is what pickle.load builds, an object of its own
loadFromFile(table, filename, file) ==
    [shared |-> FALSE, db |-> file.db, heap |-> file.heap]

\* PickleStorage.load of a path whose file exists: what self.db refers to.
\* The groups and moderators arguments are used on IOError only.
load(table, filename, file) ==
    IF filename \in table THEN Shared
    ELSE [shared |-> FALSE, db |-> file.db, heap |-> file.heap]

\* a dump of the mapping alone, without the Article objects it refers to
PickleFlushShallow(d, h) == [db |-> d, heap |-> <<>>]

\* PickleStorage.flush: pickle.dump(self.db) with the objects it refers to
PickleFlush(d, h) == [db |-> d, heap |-> h]

RECURSIVE PickleModeratorsLoop(_, _, _)
PickleModeratorsLoop(reg, groups, acc) ==
    IF Len(groups) = 0 THEN [exc |-> "", moderators |-> acc]
    ELSE IF groups[1] \notin DOMAIN reg
         THEN [exc |-> "TypeError", moderators |-> acc]
         ELSE PickleModeratorsLoop(reg, Tail(groups), acc \o reg[groups[1]])

\* PickleStorage.getModerators: extend(None) raises TypeError for a group
\* without an entry in db['moderators']
getModerators(d, groups) ==
    LET r == PickleModeratorsLoop(d["moderators"], groups, <<>>)
    IN  [r EXCEPT !.moderators = SelectSeq(r.moderators, LAMBDA m : m # "")]

\* PickleNextIndex without the "+ 1"
PickleNextIndexNoIncrement(g) ==
    IF Len(g) # 0 THEN SetMax(DictKeys(g)) ELSE 1

\* the index postRequest files the next article of a group under
PickleNextIndex(g) ==
    IF Len(g) # 0 THEN SetMax(DictKeys(g)) + 1 ELSE 1

RECURSIVE PickleFile(_, _, _, _)
\* the filing loop of PickleStorage.postRequest; oid is the Article object.
\* db['groups'] is a list and the keys of db['moderators'] are strings, so
\* these two keys of db raise instead of filing.
PickleFile(groups, d, xref, oid) ==
    IF Len(groups) = 0 THEN [exc |-> "", db |-> d, xref |-> xref]
    ELSE LET group == groups[1]
         IN  IF group \notin DOMAIN d
             THEN PickleFile(Tail(groups), d, xref, oid)
             ELSE IF group = "groups"
             THEN [exc |-> "AttributeError", db |-> d, xref |-> xref]
             ELSE IF group = "moderators"
             THEN [exc |-> "TypeError", db |-> d, xref |-> xref]
             ELSE LET index == PickleNextIndex(d[group])
                  IN  PickleFile(Tail(groups),
                         [d EXCEPT ![group] = DictSet(@, index, oid)],
                         Append(xref, <<group, Str(index)>>), oid)

RECURSIVE XrefPairs(_)
XrefPairs(xref) ==
    IF Len(xref) = 0 THEN <<>>
    ELSE <<Join(":", xref[1])>> \o XrefPairs(Tail(xref))

\* the Xref value PickleStorage.postRequest builds
PickleXref(xref) ==
    PySplit(HostName)[1] \o " " \o Join("", XrefPairs(xref))

\* defer.fail(None): there is no exception for the Failure to capture, its
\* construction raises instead
FailNone == "NoCurrentExceptionError"

Raise(d, h, f, exc) ==
    [ db |-> d, heap |-> h, file |-> f, mail |-> <<>>,
      kind |-> "raise", val |-> exc, diverted |-> FALSE ]

\* PickleStorage.postRequest on the article a built from the message:
\* the new db, heap and file, the mail handed to sendmail, the result and,
\* for a stored post, the Article object as the call leaves it
PicklePostRequest(d, h, f, a) ==
    IF a.exc # "" THEN Raise(d, h, f, a.exc)
    ELSE IF getHeaderRaises(a, "Newsgroups") THEN Raise(d, h, f, "IndexError")
    ELSE
    LET groups == PySplit(getHeader(a, "Newsgroups"))
        mods   == getModerators(d, groups)
    IN  IF mods.exc # "" THEN Raise(d, h, f, mods.exc)
        ELSE IF Len(mods.moderators) # 0 /\ getHeaderRaises(a, "Approved")
        THEN Raise(d, h, f, "IndexError")
        ELSE IF Len(mods.moderators) # 0 /\ getHeader(a, "Approved") = ""
        THEN IF notifyModeratorsRaises(a) THEN Raise(d, h, f, "IndexError")
             ELSE [ db |-> d, heap |-> h, file |-> f,
                    mail |-> <<notifyModerators(mods.moderators, a)>>,
                    kind |-> "sendmail", val |-> "", diverted |-> TRUE ]
        ELSE
        LET oid == Len(h) + 1
            r   == PickleFile(groups, d, <<>>, oid)
        IN  IF r.exc # "" THEN Raise(r.db, Append(h, a), f, r.exc)
            ELSE IF Len(r.xref) = 0
            THEN Raise(d, h, f, FailNone)
            ELSE LET h2 == Append(h, putHeader(a, "Xref", PickleXref(r.xref)))
                 IN  [ db |-> r.db, heap |-> h2,
                       file |-> PickleFlush(r.db, h2), mail |-> <<>>,
                       kind |-> "succeed", val |-> "None",
                       diverted |-> FALSE, article |-> h2[oid] ]

(***************************************************************************)
(* Results of the read operations: [kind, val] with kind "succeed", "fail" *)
(* (a failed Deferred) or "raise" (an exception raised into the caller).   *)
(* An absent argument (None) is the empty set, a present one {n}.          *)
(***************************************************************************)
ERR_NOGROUP == 2
ERR_NOARTICLE == 3

Succeed(v) == [kind |-> "succeed", val |-> v]
Fail(e) == [kind |-> "fail", val |-> e]
Raised(e) == [kind |-> "raise", val |-> e]

None == {}
Some(n) == {n}
The(x) == CHOOSE v \in x : TRUE

\* the keys of an ordered dictionary, in iteration order
DictKeySeq(d) == [i \in 1..Len(d) |-> d[i].key]

\* PickleStorage.groupRequest
PickleGroupRequest(d, group) ==
    IF group \in DOMAIN d
    THEN LET keys == DictKeys(d[group])
         IN  IF Cardinality(keys) # 0
             THEN Succeed(<<group, Cardinality(keys), SetMax(keys),
                            SetMin(keys), "y">>)
             ELSE Succeed(<<group, 0, 0, 0, "y">>)
    ELSE Fail(ERR_NOGROUP)

RECURSIVE PickleListRows(_, _)
\* the loop of PickleStorage.listRequest over the names l
PickleListRows(d, l) ==
    IF Len(l) = 0 THEN <<>>
    ELSE LET i     == l[1]
             keys  == DictKeys(d[i])
             low   == IF Cardinality(keys) # 0 THEN SetMin(keys) ELSE 0
             high  == IF Cardinality(keys) # 0 THEN SetMax(keys) + 1 ELSE 0
             flags == IF i \in DOMAIN d["moderators"] THEN "m" ELSE "y"
         IN  << <<i, high, low, flags>> >> \o PickleListRows(d, Tail(l))

\* PickleStorage.listRequest
PickleListRequest(d) == Succeed(PickleListRows(d, d["groups"]))

\* PickleStorage.listGroupRequest
PickleListGroupRequest(d, group) ==
    IF group \in DOMAIN d
    THEN Succeed(<<group, DictKeySeq(d[group])>>)
    ELSE Raised(FailNone)

\* PickleStorage.articleExistsRequest
PickleArticleExistsRequest(d, h, id) ==
    IF \E i \in 1..Len(d["groups"]) :
          \E j \in 1..Len(d[d["groups"][i]]) :
             getHeader(h[d[d["groups"][i]][j].item], "Message-ID") = id
    THEN Succeed(1)
    ELSE Succeed(0)

\* PickleStorage.bodyRequest
PickleBodyRequest(d, h, group, index) ==
    IF group \in DOMAIN d
    THEN IF DictHas(d[group], index)
         THEN LET a == h[DictGet(d[group], index)]
              IN  Succeed(<<index, getHeader(a, "Message-ID"), a.body>>)
         ELSE Fail(ERR_NOARTICLE)
    ELSE Fail(ERR_NOGROUP)

\* PickleStorage.articleRequest; the file-like result is its text
PickleArticleRequest(d, h, group, index, id) ==
    IF id # None THEN Raised("NotImplementedError")
    ELSE IF group \in DOMAIN d
    THEN IF DictHas(d[group], index)
         THEN LET a == h[DictGet(d[group], index)]
              IN  IF textHeadersRaises(a) THEN Raised("IndexError")
                  ELSE Succeed(<<index, getHeader(a, "Message-ID"),
                                 textHeaders(a) \o "\r\n" \o a.body>>)
         ELSE Fail(ERR_NOARTICLE)
    ELSE Fail(ERR_NOGROUP)

\* PickleStorage.headRequest
PickleHeadRequest(d, h, group, index) ==
    IF group \in DOMAIN d
    THEN IF DictHas(d[group], index)
         THEN LET a == h[DictGet(d[group], index)]
              IN  IF textHeadersRaises(a) THEN Raised("IndexError")
                  ELSE Succeed(<<index, getHeader(a, "Message-ID"),
                                 textHeaders(a)>>)
         ELSE Fail(ERR_NOARTICLE)
    ELSE Fail(ERR_NOGROUP)

InRange(i, low, high) ==
    (low = None \/ i >= The(low)) /\ (high = None \/ i <= The(high))

RECURSIVE PickleXoverRows(_, _, _, _)
PickleXoverRows(g, h, low, high) ==
    IF Len(g) = 0 THEN <<>>
    ELSE (IF InRange(g[1].key, low, high)
          THEN << <<Str(g[1].key)>> \o overview(h[g[1].item]) >>
          ELSE <<>>)
         \o PickleXoverRows(Tail(g), h, low, high)

\* PickleStorage.xoverRequest
PickleXoverRequest(d, h, group, low, high) ==
    IF group \notin DOMAIN d THEN Succeed(<<>>)
    ELSE IF \E j \in 1..Len(d[group]) :
               /\ InRange(d[group][j].key, low, high)
               /\ overviewRaises(h[d[group][j].item])
         THEN Raised("IndexError")
         ELSE Succeed(PickleXoverRows(d[group], h, low, high))

(***************************************************************************)
\* the test of PickleStorage.xhdrRequest, as Python groups it:
\* low is None or (i >= low and high is None) or i <= high.
\* The last comparison, reached with high = None, is False where None orders
\* below every number (py2 = TRUE) and raises TypeError elsewhere.
XhdrTestRaises(i, low, high, py2) ==
    low # None /\ ~(i >= The(low) /\ high = None) /\ high = None /\ ~py2

XhdrTest(i, low, high) ==
    \/ low = None
    \/ i >= The(low) /\ high = None
    \/ high # None /\ i <= The(high)

RECURSIVE PickleXhdrRows(_, _, _, _, _)
PickleXhdrRows(g, h, low, high, header) ==
    IF Len(g) = 0 THEN <<>>
    ELSE (IF XhdrTest(g[1].key, low, high)
          THEN << <<g[1].key, getHeader(h[g[1].item], header)>> >>
          ELSE <<>>)
         \o PickleXhdrRows(Tail(g), h, low, high, header)

\* PickleStorage.xhdrRequest
PickleXhdrRequest(d, h, py2, group, low, high, header) ==
    IF group \notin DOMAIN d THEN Succeed(<<>>)
    ELSE IF \E j \in 1..Len(d[group]) :
               XhdrTestRaises(d[group][j].key, low, high, py2)
         THEN Raised("TypeError")
         ELSE IF \E j \in 1..Len(d[group]) :
                    /\ XhdrTest(d[group][j].key, low, high)
                    /\ getHeaderRaises(h[d[group][j].item], header)
         THEN Raised("IndexError")
         ELSE Succeed(PickleXhdrRows(d[group], h, low, high, header))

(* NewsShelf.  A bytes object is written as Python prints it, b'...'; the  *)
(* tables of the shelf are keyed by bytes and hold copies of the values    *)
(* stored in them.                                                         *)
(***************************************************************************)
\* s.encode("utf-8")
Encode(s) == "b'" \o s \o "'"

\* Group(name, flags)
Group(name, flags) ==
    [ name |-> name, flags |-> flags, minArticle |-> 1, maxArticle |-> 0,
      articles |-> EmptyDict ]

\* NewsShelf.initialize followed by addGroup(n, flags[n]) for the groups and
\* addModerator(n, moderators[n]) for the moderated names
ShelfInit(flags, moderators) ==
    [ groups |->
          [k \in {Encode(n) : n \in DOMAIN flags} |->
              LET n == CHOOSE n \in DOMAIN flags : Encode(n) = k
              IN  Group(k, flags[n])],
      moderators |->
          [k \in {Encode(n) : n \in DOMAIN moderators} |->
              LET n == CHOOSE n \in DOMAIN moderators : Encode(n) = k
              IN  moderators[n]],
      subscriptions |-> <<>>,
      MessageIDs |-> <<>> ]

\* getModerator looking at the first named group only
getModeratorFirstOnly(t, groups) ==
    IF Len(groups) # 0 /\ Encode(groups[1]) \in DOMAIN t.moderators
    THEN Some(t.moderators[Encode(groups[1])])
    ELSE None

RECURSIVE getModerator(_, _)
\* NewsShelf.getModerator: the address of the first named group that has one
getModerator(t, groups) ==
    IF Len(groups) = 0 THEN None
    ELSE IF Encode(groups[1]) \in DOMAIN t.moderators
         THEN Some(t.moderators[Encode(groups[1])])
         ELSE getModerator(t, Tail(groups))

RECURSIVE ShelfFile(_, _, _, _)
\* the filing loop of NewsShelf.postRequest; the table keeps the Group as it
\* is when it is stored, with the article as it is at that moment
ShelfFile(groups, table, xref, article) ==
    IF Len(groups) = 0 THEN [groups |-> table, xref |-> xref]
    ELSE LET group == groups[1]
             key   == Encode(group)
         IN  IF key \notin DOMAIN table
             THEN ShelfFile(Tail(groups), table, xref, article)
             ELSE LET g     == table[key]
                      index == g.maxArticle + 1
                      g2    == [g EXCEPT
                                  !.maxArticle = g.maxArticle + 1,
                                  !.articles = DictSet(@, index, article)]
                  IN  ShelfFile(Tail(groups),
                         [table EXCEPT ![key] = g2],
                         Append(xref, <<group, Str(index)>>), article)

\* the Xref value NewsShelf.postRequest builds
ShelfXref(xref) ==
    PySplit(HostName)[1] \o " " \o Join(" ", XrefPairs(xref))

\* t with t[k] = v
MapSet(t, k, v) == [x \in DOMAIN t \cup {k} |-> IF x = k THEN v ELSE t[x]]

ShelfRaise(t, exc) ==
    [ dbm |-> t, mail |-> <<>>, kind |-> "raise", val |-> exc,
      diverted |-> FALSE ]

\* NewsShelf.postRequest on the article built from the message
ShelfPostRequest(t, article) ==
    IF article.exc # "" THEN ShelfRaise(t, article.exc)
    ELSE IF getHeaderRaises(article, "Newsgroups")
    THEN ShelfRaise(t, "IndexError")
    ELSE
    LET groups    == PySplit(getHeader(article, "Newsgroups"))
        moderator == getModerator(t, groups)
        truthy    == moderator # None /\ The(moderator) # ""
    IN  IF truthy /\ getHeaderRaises(article, "Approved")
        THEN ShelfRaise(t, "IndexError")
        ELSE IF truthy /\ getHeader(article, "Approved") = ""
        THEN IF notifyModeratorsRaises(article)
             THEN ShelfRaise(t, "IndexError")
             ELSE [ dbm |-> t,
                    mail |-> <<notifyModerators(<<The(moderator)>>, article)>>,
                    kind |-> "sendmail", val |-> "", diverted |-> TRUE ]
        ELSE
        LET r == ShelfFile(groups, t.groups, <<>>, article)
        IN  IF Len(r.xref) = 0
            THEN [ dbm |-> t, mail |-> <<>>, kind |-> "fail",
                   val |-> "No groups carried: " \o Join(" ", groups),
                   diverted |-> FALSE ]
            ELSE LET a2 == putHeader(article, "Xref", ShelfXref(r.xref))
                     id == Encode(getHeader(a2, "Message-ID"))
                 IN  [ dbm |-> [t EXCEPT
                                  !.groups = r.groups,
                                  !.MessageIDs = MapSet(@, id, r.xref)],
                       mail |-> <<>>, kind |-> "succeed", val |-> "None",
                       diverted |-> FALSE, article |-> a2 ]

RECURSIVE ShelfFileWrites(_, _, _)
\* the groups table after each of the assignments the filing loop makes to it
ShelfFileWrites(groups, table, article) ==
    IF Len(groups) = 0 THEN <<>>
    ELSE LET key == Encode(groups[1])
         IN  IF key \notin DOMAIN table
             THEN ShelfFileWrites(Tail(groups), table, article)
             ELSE LET g  == table[key]
                      g2 == [g EXCEPT
                               !.maxArticle = g.maxArticle + 1,
                               !.articles = DictSet(@, g.maxArticle + 1,
                                                    article)]
                      t2 == [table EXCEPT ![key] = g2]
                  IN  <<t2>> \o ShelfFileWrites(Tail(groups), t2, article)

\* writes in another order: the Message-IDs entry first, then the groups
ShelfPostWritesIndexFirst(t, article) ==
    LET q == ShelfPostRequest(t, article)
    IN  IF q.kind # "succeed" \/ q.diverted THEN <<>>
        ELSE LET groups == PySplit(getHeader(article, "Newsgroups"))
                 ws     == ShelfFileWrites(groups, t.groups, article)
             IN  <<[t EXCEPT !.MessageIDs = q.dbm.MessageIDs]>>
                 \o [ j \in 1..Len(ws) |->
                        [t EXCEPT !.groups = ws[j],
                                  !.MessageIDs = q.dbm.MessageIDs] ]

\* the tables after each write NewsShelf.postRequest makes, in the order it
\* makes them: the groups that file the article, then the Message-IDs entry
ShelfPostWrites(t, article) ==
    LET q == ShelfPostRequest(t, article)
    IN  IF q.kind # "succeed" \/ q.diverted THEN <<>>
        ELSE LET groups == PySplit(getHeader(article, "Newsgroups"))
                 ws     == ShelfFileWrites(groups, t.groups, article)
             IN  [ j \in 1..Len(ws) |-> [t EXCEPT !.groups = ws[j]] ]
                 \o <<[t EXCEPT !.groups = ws[Len(ws)],
                                !.MessageIDs = q.dbm.MessageIDs]>>

\* NewsShelf.groupRequest
ShelfGroupRequest(t, group) ==
    IF Encode(group) \notin DOMAIN t.groups
    THEN Fail("No such group: " \o group)
    ELSE LET g    == t.groups[Encode(group)]
             low  == g.minArticle
             high == g.maxArticle
         IN  Succeed(<<group, high - low + 1, high, low, g.flags>>)

\* the orders in which the keys of a table can be listed
Orders(S) ==
    { q \in [1..Cardinality(S) -> S] : \A k \in S : \E j \in DOMAIN q : q[j] = k }

\* NewsShelf.listRequest, the table listing its values in the order keys
ShelfListRequest(t, keys) ==
    Succeed([ j \in 1..Len(keys) |->
                LET g == t.groups[keys[j]]
                IN  <<g.name, g.maxArticle, g.minArticle, g.flags>> ])

\* NewsShelf.listGroupRequest
ShelfListGroupRequest(t, group) ==
    IF Encode(group) \in DOMAIN t.groups
    THEN Succeed(<<group, DictKeySeq(t.groups[Encode(group)].articles)>>)
    ELSE Fail("No such group: " \o group)

\* the lookup under the text key, which the bytes-keyed table never holds
ShelfArticleExistsRequestTextKey(t, id) == Succeed(id \in DOMAIN t.MessageIDs)

\* NewsShelf.articleExistsRequest
ShelfArticleExistsRequest(t, id) == Succeed(Encode(id) \in DOMAIN t.MessageIDs)

\* NewsShelf.bodyRequest(group, index): a missing group and a missing article
\* are the same KeyError
ShelfBodyRequest(t, group, index) ==
    IF \/ Encode(group) \notin DOMAIN t.groups
       \/ ~DictHas(t.groups[Encode(group)].articles, index)
    THEN Fail("No such group: " \o group)
    ELSE LET a == DictGet(t.groups[Encode(group)].articles, index)
         IN  Succeed(<<index, getHeader(a, "Message-ID"), a.body>>)

\* int(s) for the decimal numerals postRequest writes into an xref
RECURSIVE PyInt(_)
PyInt(s) ==
    IF s = "" THEN 0
    ELSE 10 * PyInt(PyTo(s, Len(s) - 1))
         + (Find(DigitChars, PyFrom(s, Len(s) - 1)))

\* NewsShelf.articleRequest(group, index, id): with an id, the group and the
\* index are replaced by the first pair of the xref stored for it
ShelfArticleRequest(t, group, index, id) ==
    IF id # None /\ Encode(The(id)) \notin DOMAIN t.MessageIDs
    THEN Fail("No such article: " \o The(id))
    ELSE
    LET xref == t.MessageIDs[Encode(The(id))]
        grp  == IF id # None THEN xref[1][1] ELSE group
        idx  == IF id # None THEN PyInt(xref[1][2]) ELSE index
    IN  IF \/ Encode(grp) \notin DOMAIN t.groups
           \/ ~DictHas(t.groups[Encode(grp)].articles, idx)
        THEN Fail("No such group: " \o grp)
        ELSE LET a == DictGet(t.groups[Encode(grp)].articles, idx)
             IN  IF textHeadersRaises(a) THEN Raised("IndexError")
                 ELSE Succeed(<<idx, getHeader(a, "Message-ID"),
                                textHeaders(a) \o "\r\n" \o a.body>>)

\* NewsShelf.headRequest(group, index)
ShelfHeadRequest(t, group, index) ==
    IF \/ Encode(group) \notin DOMAIN t.groups
       \/ ~DictHas(t.groups[Encode(group)].articles, index)
    THEN Fail("No such group: " \o group)
    ELSE LET a == DictGet(t.groups[Encode(group)].articles, index)
         IN  IF textHeadersRaises(a) THEN Raised("IndexError")
             ELSE Succeed(<<index, getHeader(a, "Message-ID"),
                            textHeaders(a)>>)

RECURSIVE ShelfXoverRows(_, _, _)
\* the rows for i in range(low, high + 1)
ShelfXoverRows(articles, low, high) ==
    IF low > high THEN <<>>
    ELSE (IF DictHas(articles, low)
          THEN << <<Str(low)>> \o overview(DictGet(articles, low)) >>
          ELSE <<>>)
         \o ShelfXoverRows(articles, low + 1, high)

RECURSIVE ShelfXhdrRows(_, _, _, _)
\* the entries for i in range(low, high + 1)
ShelfXhdrRows(articles, low, high, header) ==
    IF low > high THEN <<>>
    ELSE (IF DictHas(articles, low)
          THEN << <<low, getHeader(DictGet(articles, low), header)>> >>
          ELSE <<>>)
         \o ShelfXhdrRows(articles, low + 1, high, header)

\* NewsShelf.xhdrRequest.  Only the default of high is read under the text
\* key; the loop reads under group.encode("utf-8").
ShelfXhdrRequest(t, sk, group, low, high, header) ==
    IF Encode(group) \notin DOMAIN t.groups THEN Succeed(<<>>)
    ELSE
    LET g  == t.groups[Encode(group)]
        lo == IF low = None THEN 0 ELSE The(low)
        hi == IF high = None THEN g.maxArticle ELSE The(high)
    IN  IF high = None /\ ~sk THEN Raised("TypeError")
        ELSE IF \E i \in lo..hi : /\ DictHas(g.articles, i)
                                  /\ getHeaderRaises(DictGet(g.articles, i),
                                                     header)
        THEN Raised("IndexError")
        ELSE Succeed(ShelfXhdrRows(g.articles, lo, hi, header))

\* NewsShelf.xoverRequest.  Past the membership test the group is looked up
\* under the text key group, not group.encode("utf-8"): the key store either
\* takes it for the bytes key (sk) or raises TypeError.
ShelfXoverRequest(t, sk, group, low, high) ==
    IF Encode(group) \notin DOMAIN t.groups THEN Succeed(<<>>)
    ELSE
    LET g  == t.groups[Encode(group)]
        lo == IF low = None THEN 0 ELSE The(low)
        hi == IF high = None THEN g.maxArticle ELSE The(high)
    IN  IF high = None /\ ~sk THEN Raised("TypeError")
        ELSE IF lo <= hi /\ ~sk THEN Raised("TypeError")
        ELSE IF \E i \in lo..hi : /\ DictHas(g.articles, i)
                                  /\ overviewRaises(DictGet(g.articles, i))
        THEN Raised("IndexError")
        ELSE Succeed(ShelfXoverRows(g.articles, lo, hi))

(***************************************************************************)
(* NewsStorageAugmentation.  The database is the three tables postRequest  *)
(* uses and the sequence behind articles.article_id; a table is the        *)
(* sequence of its rows.  Statements of a transaction read the committed   *)
(* rows; rows a transaction inserts are pending until it commits.          *)
(***************************************************************************)
SafeChar(c) == IF c = "'" THEN "''" ELSE IF c = "\\" THEN "\\\\" ELSE c

RECURSIVE safe(_)
\* adbapi.safe(text): quotes and backslashes doubled
safe(text) ==
    IF Len(text) = 0 THEN ""
    ELSE IF Len(text) = 1 THEN SafeChar(text)
    ELSE safe(SubSeq(text, 1, Len(text) \div 2))
         \o safe(SubSeq(text, Len(text) \div 2 + 1, Len(text)))

\* the schema after makeGroupSQL(groups) was run on it
SqlInit(groups) ==
    [ groups   |-> [ j \in 1..Len(groups) |->
                       [group_id |-> j, name |-> safe(groups[j]), flags |-> 0] ],
      articles |-> <<>>,
      postings |-> <<>>,
      seq      |-> 0 ]

RECURSIVE SelectNameIn(_, _)
\* SELECT ... FROM groups WHERE name IN (names): the rows, in table order
SelectNameIn(q, names) ==
    IF Len(q) = 0 THEN <<>>
    ELSE (IF q[1].name \in names THEN <<q[1]>> ELSE <<>>)
         \o SelectNameIn(Tail(q), names)

\* _doPost up to the first query: the (name, group_id) rows of the groups
\* the Newsgroups header names
doPostGroups(s, article) ==
    IF getHeaderRaises(article, "Newsgroups")
    THEN [exc |-> "IndexError", result |-> <<>>]
    ELSE
    LET groups == PySplit(getHeader(article, "Newsgroups"))
        names  == { safe(groups[j]) : j \in 1..Len(groups) }
        rows   == SelectNameIn(s.groups, names)
    IN  IF Len(groups) = 0
        THEN [exc |-> "NNTPError: Missing Newsgroups header", result |-> <<>>]
        ELSE IF Len(rows) = 0
        THEN [exc |-> "NNTPError: None of groups in Newsgroup header carried",
              result |-> <<>>]
        ELSE [exc |-> "",
              result |-> [j \in 1..Len(rows) |->
                            <<rows[j].name, rows[j].group_id>>]]

\* COALESCE(MAX(postings.article_index), 0) + 1 for the group gid
NextArticleIndex(s, gid) ==
    LET rows == { j \in 1..Len(s.postings) : s.postings[j].group_id = gid }
    IN  (IF rows = {} THEN 0
         ELSE SetMax({ s.postings[j].article_index : j \in rows })) + 1

\* the second query of _doPost: (group_id, next index) for the groups found
doPostIndices(s, result) ==
    [ j \in 1..Len(result) |-> <<result[j][2], NextArticleIndex(s, result[j][2])>> ]

\* the Xref header _doPost builds from the two query results
doPostXref(result, indices) ==
    PySplit(HostName)[1] \o " "
       \o Join(" ", [ j \in 1..Len(result) |->
                        result[j][1] \o ":" \o Str(indices[j][2]) ])

\* INSERT INTO articles: the row, with article_id drawn from the sequence
doPostArticle(s, article) ==
    [ article_id |-> s.seq + 1,
      message_id |-> safe(getHeader(article, "Message-ID")),
      header     |-> safe(textHeaders(article)),
      body       |-> safe(article.body) ]

\* a working loop over the groups found: one row per group, which the unique
\* index on postings.article_id stops at the second row of an article
doPostPostingsFormat(s, indices) ==
    IF Len(indices) > 1 \/ \E j \in 1..Len(s.postings) :
                             s.postings[j].article_id = s.seq
    THEN [exc |-> "IntegrityError", rows |-> <<>>]
    ELSE [exc |-> "",
          rows |-> [ j \in 1..Len(indices) |->
                       [ group_id      |-> indices[j][1],
                         article_id    |-> s.seq,
                         article_index |-> indices[j][2] ] ]]

\* the loop of _doPost that inserts the postings rows: building the first
\* statement calls the str method formatl, which does not exist
doPostPostings(s, indices) ==
    IF Len(indices) = 0 THEN [exc |-> "", rows |-> <<>>]
    ELSE [exc |-> "AttributeError", rows |-> <<>>]

(***************************************************************************)
(* Initial states: a PickleStorage opened on a path that has no file yet,  *)
(* or a NewsShelf on an empty directory after its groups and moderators    *)
(* were added.                                                             *)
(***************************************************************************)
PickleGroupsArgs == { <<"a">>, <<"a", "b">> }

\* moderators: group name -> list of addresses
PickleModeratorsArgs ==
    UNION { [S -> { <<>>, <<"m@h">> }] : S \in SUBSET Names }

\* moderators handed to the constructors after the first
LaterModeratorsArgs == { <<>>, [n \in {"a"} |-> <<"m@h">>] }

ShelfGroupsArgs == { {"a"}, {"a", "b"} }

\* moderators: group name -> address
ShelfModeratorsArgs ==
    { [n \in S |-> IF n = "b" THEN "n@h" ELSE "m@h"] : S \in SUBSET Names }

NoDb == [k \in {"groups", "moderators"} |-> <<>>]
NoDbm == ShelfInit(<<>>, <<>>)

InitPickle ==
    /\ backend = "pickle"
    /\ \E groups \in PickleGroupsArgs, moderators \in PickleModeratorsArgs :
          /\ db = PickleLoad(groups, moderators)
          /\ datafile = PickleFlush(PickleLoad(groups, moderators), <<>>)
    /\ heap = <<>>
    /\ sharedDBs = {FileName}
    /\ stores = <<Shared>>
    /\ dbm = NoDbm
    /\ strKeys = TRUE

InitShelf ==
    /\ backend = "shelf"
    /\ \E G \in ShelfGroupsArgs, moderators \in ShelfModeratorsArgs :
          dbm = ShelfInit([n \in G |-> IF n \in DOMAIN moderators
                                       THEN "m" ELSE "y"],
                          moderators)
    /\ strKeys \in BOOLEAN
    /\ db = NoDb
    /\ heap = <<>>
    /\ datafile = PickleFlush(NoDb, <<>>)

\* a PickleStorage and a NewsShelf constructed with the same groups, none
\* of them moderated: no address in the registry of the one, flags "y" and
\* no moderator in the other
InitBoth ==
    /\ backend = "both"
    /\ \E groups \in PickleGroupsArgs :
          LET d == PickleLoad(groups, [n \in SeqToSet(groups) |-> <<>>])
          IN  /\ db = d
              /\ datafile = PickleFlush(d, <<>>)
              /\ dbm = ShelfInit([n \in SeqToSet(groups) |-> "y"], <<>>)
    /\ heap = <<>>
    /\ sharedDBs = {FileName}
    /\ stores = <<Shared>>
    /\ strKeys \in BOOLEAN

\* the groups makeGroupSQL is run with
SqlGroupsArgs == { <<"a">>, <<"a", "b">> }

InitSql ==
    /\ backend = "sql"
    /\ \E groups \in SqlGroupsArgs : sql = SqlInit(groups)
    /\ strKeys \in BOOLEAN
    /\ db = NoDb
    /\ heap = <<>>
    /\ datafile = PickleFlush(NoDb, <<>>)
    /\ dbm = NoDbm

Init ==
    /\ \/ InitPickle /\ sql = SqlInit(<<>>)
       \/ InitShelf /\ sql = SqlInit(<<>>) /\ sharedDBs = {} /\ stores = <<>>
       \/ InitSql /\ sharedDBs = {} /\ stores = <<>>
       \/ InitBoth /\ sql = SqlInit(<<>>)
    /\ txs = <<>>
    /\ now = 0
    /\ sent = <<>>
    /\ nposts = 0
    /\ last = NoPost

(***************************************************************************)
(* Actions: one postRequest call.  ok is the outcome of the sendmail call  *)
(* of a diverted post.                                                     *)
(***************************************************************************)
PostResult(message, r, ok) ==
    [ message  |-> message,
      kind     |-> IF r.diverted THEN (IF ok THEN "succeed" ELSE "fail")
                   ELSE r.kind,
      val      |-> IF r.diverted THEN "sendmail" ELSE r.val,
      diverted |-> r.diverted ]

\* PickleStorage(filename, groups, moderators) on a path that has its file
PickleStorageInit(groups, moderators) ==
    /\ backend = "pickle"
    /\ Len(stores) < MaxStores
    /\ stores' = Append(stores, load(sharedDBs, FileName, datafile))
    /\ sharedDBs' = sharedDBs \cup {FileName}
    /\ UNCHANGED <<backend, db, heap, datafile, shelfVars, sqlVars,
                   now, sent, nposts, last>>

\* the mapping and the Article objects instance i works on
StoreDb(i) == IF stores[i].shared THEN db ELSE stores[i].db
StoreHeap(i) == IF stores[i].shared THEN heap ELSE stores[i].heap

\* the changes postRequest on instance i makes, r being what it computes
PickleStore(i, message, r) ==
    /\ IF stores[i].shared
       THEN /\ db' = r.db
            /\ heap' = r.heap
            /\ stores' = stores
       ELSE /\ stores' = [stores EXCEPT ![i].db = r.db, ![i].heap = r.heap]
            /\ UNCHANGED <<db, heap>>
    /\ datafile' = r.file
    /\ sent' = sent \o r.mail
    /\ \E ok \in (IF r.diverted THEN BOOLEAN ELSE {TRUE}) :
          last' = PostResult(message, r, ok)

\* postRequest(message) on instance i
PicklePost(i, message, t) ==
    /\ backend = "pickle"
    /\ nposts < MaxPosts
    /\ t >= now
    /\ IF stores[i].shared
       THEN PickleStore(i, message,
                PicklePostRequest(db, heap, datafile, Parsed[message][t]))
       ELSE PickleStore(i, message,
                PicklePostRequest(stores[i].db, stores[i].heap, datafile,
                                  Parsed[message][t]))
    /\ now' = t
    /\ nposts' = nposts + 1
    /\ UNCHANGED <<backend, sharedDBs, shelfVars, sqlVars>>

ShelfPost(message, t) ==
    /\ backend = "shelf"
    /\ nposts < MaxPosts
    /\ t >= now
    /\ LET r == ShelfPostRequest(dbm, Parsed[message][t])
       IN  /\ dbm' = r.dbm
           /\ sent' = sent \o r.mail
           /\ \E ok \in (IF r.diverted THEN BOOLEAN ELSE {TRUE}) :
                 last' = PostResult(message, r, ok)
    /\ now' = t
    /\ nposts' = nposts + 1
    /\ UNCHANGED <<backend, pickleVars, strKeys, sqlVars>>

\* postRequest(message) on the PickleStorage and on the NewsShelf of the pair;
\* last records the result of the NewsShelf
BothPost(message) ==
    /\ backend = "both"
    /\ nposts < MaxPosts
    /\ LET r == PicklePostRequest(db, heap, datafile, Parsed[message][now])
           q == ShelfPostRequest(dbm, Parsed[message][now])
       IN  /\ db' = r.db
           /\ heap' = r.heap
           /\ datafile' = r.file
           /\ dbm' = q.dbm
           /\ sent' = sent \o r.mail \o q.mail
           /\ \E ok \in (IF q.diverted THEN BOOLEAN ELSE {TRUE}) :
                 last' = PostResult(message, q, ok)
    /\ nposts' = nposts + 1
    /\ UNCHANGED <<backend, sharedDBs, stores, strKeys, sqlVars, now>>

(***************************************************************************)
(* NewsStorageAugmentation.postRequest and the steps of the transaction    *)
(* runInteraction runs _doPost in: each statement is a step of its own,    *)
(* so that the transactions of several calls interleave.  A transaction    *)
(* that ends by an exception is rolled back and fails the Deferred of its  *)
(* call; one that returns is committed.                                    *)
(***************************************************************************)
\* the messages posted to the database
SqlMessages ==
    { MsgPlain, MsgApproved, MsgCross, MsgSameId, MsgUnknown, MsgNoGroups,
      MsgNoHead }

\* a call that is over: its result, nothing pending
Done(tx, kind, val) ==
    [tx EXCEPT !.pc = "done", !.kind = kind, !.val = val, !.pend = <<>>]

\* postRequest(message): message.find(b"...") takes a text message only where
\* text and bytes are one type (strKeys)
SqlPost(message) ==
    /\ backend = "sql"
    /\ Len(txs) < MaxPosts
    /\ LET article == Parsed[message][now]
           tx == [ message |-> message, pc |-> "groups", kind |-> "none",
                   val |-> "", article |-> article, result |-> <<>>,
                   indices |-> <<>>, pend |-> <<>> ]
       IN  txs' = Append(txs,
                    IF ~strKeys THEN Done(tx, "raise", "TypeError")
                    ELSE IF article.exc # "" THEN Done(tx, "raise", article.exc)
                    ELSE tx)
    /\ UNCHANGED <<backend, pickleVars, shelfVars, sql, now, sent,
                   nposts, last>>

\* the first query of _doPost
SqlSelectGroups(i) ==
    /\ backend = "sql"
    /\ txs[i].pc = "groups"
    /\ LET r == doPostGroups(sql, txs[i].article)
       IN  txs' = [txs EXCEPT ![i] =
                     IF r.exc # "" THEN Done(txs[i], "fail", r.exc)
                     ELSE [txs[i] EXCEPT !.pc = "indices",
                                         !.result = r.result]]
    /\ UNCHANGED <<backend, pickleVars, shelfVars, sql, now, sent,
                   nposts, last>>

\* the second query of _doPost, and the Xref header built from its result
SqlSelectIndices(i) ==
    /\ backend = "sql"
    /\ txs[i].pc = "indices"
    /\ LET indices == doPostIndices(sql, txs[i].result)
       IN  txs' = [txs EXCEPT ![i] =
                     [txs[i] EXCEPT
                        !.pc = "article",
                        !.indices = indices,
                        !.article = putHeader(txs[i].article, "Xref",
                                        doPostXref(txs[i].result, indices))]]
    /\ UNCHANGED <<backend, pickleVars, shelfVars, sql, now, sent,
                   nposts, last>>

\* INSERT INTO articles.  The unique index on message_id makes the statement
\* wait for a transaction that has a row with this message_id pending, and
\* fail when a committed row has it.
SqlInsertArticle(i) ==
    /\ backend = "sql"
    /\ txs[i].pc = "article"
    /\ LET row == doPostArticle(sql, txs[i].article)
       IN  /\ \A k \in 1..Len(txs) : \A j \in 1..Len(txs[k].pend) :
                 txs[k].pend[j].message_id # row.message_id
           /\ IF textHeadersRaises(txs[i].article)
              THEN /\ txs' = [txs EXCEPT ![i] = Done(txs[i], "fail", "IndexError")]
                   /\ sql' = sql
              ELSE IF \E j \in 1..Len(sql.articles) :
                         sql.articles[j].message_id = row.message_id
              THEN /\ txs' = [txs EXCEPT ![i] = Done(txs[i], "fail", "IntegrityError")]
                   /\ sql' = [sql EXCEPT !.seq = @ + 1]
              ELSE /\ txs' = [txs EXCEPT ![i] =
                                [txs[i] EXCEPT !.pc = "postings",
                                               !.pend = <<row>>]]
                   /\ sql' = [sql EXCEPT !.seq = @ + 1]
    /\ UNCHANGED <<backend, pickleVars, shelfVars, now, sent, nposts,
                   last>>

\* the loop that inserts the postings rows, and the end of the transaction
SqlInsertPostings(i) ==
    /\ backend = "sql"
    /\ txs[i].pc = "postings"
    /\ LET r == doPostPostings(sql, txs[i].indices)
       IN  IF r.exc # ""
           THEN /\ txs' = [txs EXCEPT ![i] = Done(txs[i], "fail", r.exc)]
                /\ sql' = sql
           ELSE /\ txs' = [txs EXCEPT ![i] =
                             Done(txs[i], "succeed", Str(Len(txs[i].result)))]
                /\ sql' = [sql EXCEPT
                             !.articles = @ \o txs[i].pend,
                             !.postings = @ \o r.rows]
    /\ UNCHANGED <<backend, pickleVars, shelfVars, now, sent, nposts,
                   last>>

Next ==
    \/ \E groups \in PickleGroupsArgs, moderators \in LaterModeratorsArgs :
          PickleStorageInit(groups, moderators)
    \/ \E i \in 1..Len(stores), message \in Messages, t \in Times :
          PicklePost(i, message, t)
    \/ \E message \in Messages, t \in Times : ShelfPost(message, t)
    \/ \E message \in Messages : BothPost(message)
    \/ \E message \in SqlMessages : SqlPost(message)
    \/ \E i \in 1..Len(txs) : SqlSelectGroups(i)
    \/ \E i \in 1..Len(txs) : SqlSelectIndices(i)
    \/ \E i \in 1..Len(txs) : SqlInsertArticle(i)
    \/ \E i \in 1..Len(txs) : SqlInsertPostings(i)

Spec == Init /\ [][Next]_vars

(***************************************************************************)
(* Observations of a backend state, written once for both backends:        *)
(* b is the backend, d and h the PickleStorage db and heap, t the shelf.   *)
(***************************************************************************)
\* the groups the backend recognizes
KnownIn(b, d, t) ==
    IF b = "pickle" THEN DOMAIN d \ {"groups", "moderators"}
    ELSE { n \in Names : Encode(n) \in DOMAIN t.groups }

\* the article mapping of group g, in the order the articles were filed
MappingIn(b, d, t, g) ==
    IF b = "pickle" THEN d[g] ELSE t.groups[Encode(g)].articles

IndicesIn(b, d, t, g) == DictKeySeq(MappingIn(b, d, t, g))

\* the article stored in group g under index i
StoredIn(b, d, h, t, g, i) ==
    IF b = "pickle" THEN h[DictGet(d[g], i)]
    ELSE DictGet(t.groups[Encode(g)].articles, i)

\* the highest index the group has assigned (0: none yet)
MaxIndexIn(b, d, t, g) ==
    IF b = "pickle"
    THEN (IF Len(d[g]) = 0 THEN 0 ELSE SetMax(DictKeys(d[g])))
    ELSE t.groups[Encode(g)].maxArticle

\* the addresses registered as moderators of the name g
ModeratorsOf(b, d, t, g) ==
    IF b = "pickle"
    THEN (IF g \in DOMAIN d["moderators"]
          THEN { a \in SeqToSet(d["moderators"][g]) : a # "" }
          ELSE {})
    ELSE (IF Encode(g) \in DOMAIN t.moderators
          THEN { t.moderators[Encode(g)] } \ {""}
          ELSE {})

Known == KnownIn(backend, db, dbm)
Indices(g) == IndicesIn(backend, db, dbm, g)
Stored(g, i) == StoredIn(backend, db, heap, dbm, g, i)
Moderated(g) == ModeratorsOf(backend, db, dbm, g) # {}

\* the step is a postRequest call of PickleStorage or NewsShelf
PostStep == nposts' = nposts + 1

\* the article the last post built, and the names in its Newsgroups header
LastArticle == Parsed[last.message][now]

TargetsOf(a) ==
    IF a.exc # "" \/ getHeaderRaises(a, "Newsgroups") THEN <<>>
    ELSE PySplit(getHeader(a, "Newsgroups"))

HasHeader(a, name) == a.exc = "" /\ DictHas(a.headers, Lower(name))

\* the last post was accepted for storage
Accepted(l) == l.kind = "succeed" /\ ~l.diverted

(***************************************************************************)
(* C1.  In PickleStorage and NewsShelf every filing of an article into a   *)
(* group uses index = (the group's previous maximum index) + 1, 1 for an   *)
(* empty group: a step only appends to a group's mapping, each appended    *)
(* index is one more than the one before it, and the entries that were     *)
(* there keep their index and their article.                               *)
(***************************************************************************)
AppendsByOne(before, after) ==
    /\ Len(after) >= Len(before)
    /\ \A j \in 1..Len(before) : after[j] = before[j]
    /\ \A j \in (Len(before) + 1)..Len(after) :
          after[j].key = (IF j = 1 THEN 0 ELSE after[j - 1].key) + 1

C1_FilingStep ==
    \A g \in Known :
       /\ AppendsByOne(MappingIn(backend, db, dbm, g),
                       MappingIn(backend', db', dbm', g))
       /\ MaxIndexIn(backend', db', dbm', g) =
             MaxIndexIn(backend, db, dbm, g)
                + Len(MappingIn(backend', db', dbm', g))
                - Len(MappingIn(backend, db, dbm, g))

C1_IndexPrevMaxPlusOne == [][C1_FilingStep]_vars

\* two posts have filed an article each into one group, under 1 and 2
C1_Witness ==
    /\ nposts = 2
    /\ Accepted(last)
    /\ \E g \in Known : IndicesIn(backend, db, dbm, g) = <<1, 2>>

(***************************************************************************)
(* C2.  A post that names a moderated group and whose article has no       *)
(* Approved header stores nothing: the article mappings and maximum        *)
(* indices of all groups and the Message-ID index are unchanged.           *)
(***************************************************************************)
NamesModerated(a) ==
    \E j \in 1..Len(TargetsOf(a)) : Moderated(TargetsOf(a)[j])

C2_DivertedStep ==
    (PostStep /\ NamesModerated(Parsed[last'.message][now'])
              /\ ~HasHeader(Parsed[last'.message][now'], "Approved"))
    => /\ db' = db
       /\ heap' = heap
       /\ dbm' = dbm

C2_DivertedPostStoresNothing == [][C2_DivertedStep]_vars

\* a cross-post to a moderated and an unmoderated group was diverted after
\* an earlier post had been stored
C2_Witness ==
    /\ last.message = MsgCross
    /\ last.diverted
    /\ \E g \in Known : Len(Indices(g)) > 0 /\ ~Moderated(g)
    /\ \E g \in Known : Moderated(g)

(***************************************************************************)
(* The read operations, dispatched on the backend.                         *)
(***************************************************************************)
GroupRequestIn(b, d, t, g) ==
    IF b = "pickle" THEN PickleGroupRequest(d, g) ELSE ShelfGroupRequest(t, g)

\* TRUE iff articleExistsRequest fires its Deferred with a true value
ArticleExistsIn(b, d, h, t, id) ==
    IF b = "pickle" THEN PickleArticleExistsRequest(d, h, id) = Succeed(1)
    ELSE ShelfArticleExistsRequest(t, id) = Succeed(TRUE)

BodyRequestIn(b, d, h, t, g, i) ==
    IF b = "pickle" THEN PickleBodyRequest(d, h, g, i)
    ELSE ShelfBodyRequest(t, g, i)

XoverRequestIn(b, d, h, t, sk, g, low, high) ==
    IF b = "pickle" THEN PickleXoverRequest(d, h, g, low, high)
    ELSE ShelfXoverRequest(t, sk, g, low, high)

\* groupInfo(g) before and after the step: (name, count, high, low, flags)
InfoBefore(g) == GroupRequestIn(backend, db, dbm, g).val
InfoAfter(g) == GroupRequestIn(backend', db', dbm', g).val

\* the article the step's post built, and its target names
StepArticle == Parsed[last'.message][now']
StepTargets == TargetsOf(StepArticle)

Named(g) == \E j \in 1..Len(StepTargets) : StepTargets[j] = g

\* the step's article is the newest article of group g
FiledLastIn(g) ==
    LET after == IndicesIn(backend', db', dbm', g)
    IN  /\ Len(after) > Len(Indices(g))
        /\ getHeader(StoredIn(backend', db', heap', dbm', g,
                              after[Len(after)]), "Message-ID")
              = getHeader(StepArticle, "Message-ID")
        /\ StoredIn(backend', db', heap', dbm', g, after[Len(after)]).body
              = StepArticle.body

(***************************************************************************)
(* C3.  A post to a recognized moderated group whose article has an        *)
(* Approved header goes through whatever the header's value, the empty     *)
(* value included: it is not diverted, it is stored, and the group's       *)
(* article count grows by one.  Stated for the posts all of whose targets  *)
(* are recognized groups, each named once.                                 *)
(***************************************************************************)
TargetsKnownOnce ==
    /\ Len(StepTargets) > 0
    /\ \A j \in 1..Len(StepTargets) : StepTargets[j] \in Known
    /\ \A j, k \in 1..Len(StepTargets) :
          StepTargets[j] = StepTargets[k] => j = k

C3_ApprovedStep ==
    (/\ PostStep
     /\ TargetsKnownOnce
     /\ \E g \in Known : Named(g) /\ Moderated(g)
     /\ HasHeader(StepArticle, "Approved"))
    => /\ ~last'.diverted
       /\ Accepted(last')
       /\ \A g \in Known :
             Named(g) => /\ FiledLastIn(g)
                         /\ InfoAfter(g)[2] = InfoBefore(g)[2] + 1

C3_ApprovedGoesThrough == [][C3_ApprovedStep]_vars

(***************************************************************************)
(* C4.  After a successful post, groupInfo shows for every recognized      *)
(* group named in Newsgroups a high index exactly 1 above its maximum      *)
(* before the post, and for every other group its previous maximum.        *)
(***************************************************************************)
C4_AdvanceStep ==
    (PostStep /\ Accepted(last'))
    => \A g \in Known :
          InfoAfter(g)[3] = InfoBefore(g)[3] + (IF Named(g) THEN 1 ELSE 0)

C4_HighAdvancesByOne == [][C4_AdvanceStep]_vars

(***************************************************************************)
(* C5.  A post whose Newsgroups header names no group known to the backend *)
(* produces a failed Deferred of the NoGroupsCarried kind and leaves the   *)
(* groups, the article mappings and the Message-ID index unchanged.        *)
(***************************************************************************)
NoGroupsCarried(l) ==
    /\ l.kind = "fail"
    /\ ~l.diverted
    /\ PyTo(l.val, Len("No groups carried")) = "No groups carried"

C5_NoGroupsStep ==
    (PostStep /\ \A g \in Known : ~Named(g))
    => /\ NoGroupsCarried(last')
       /\ db' = db
       /\ heap' = heap
       /\ dbm' = dbm

C5_NoGroupsCarriedFails == [][C5_NoGroupsStep]_vars

(***************************************************************************)
(* C6.  A post that is not diverted to the moderators and names both       *)
(* recognized and unrecognized groups succeeds, files the article in every *)
(* recognized group it names, and creates no group.                        *)
(***************************************************************************)
C6_MixedStep ==
    (/\ PostStep
     /\ ~last'.diverted
     /\ \E g \in Known : Named(g)
     /\ \E n \in Names \ Known : Named(n))
    => /\ Accepted(last')
       /\ \A g \in Known : Named(g) => FiledLastIn(g)
       /\ KnownIn(backend', db', dbm') = Known

C6_UnknownGroupsSkipped == [][C6_MixedStep]_vars

(***************************************************************************)
(* C7.  articleExists(id) is true for the Message-ID of every article that *)
(* was successfully posted, from that post on, and false for every other   *)
(* id, the ids of diverted and failed posts included: no id exists         *)
(* initially, and a step makes exactly the id of an accepted post exist.   *)
(***************************************************************************)
\* the Message-IDs the posts can carry, and one that is never posted
Ids ==
    { getHeader(Parsed[m][t], "Message-ID") :
         m \in { x \in Messages : Parsed[x][0].exc = "" }, t \in Times }
    \cup {"<never@h>"}

Exists(id) == ArticleExistsIn(backend, db, heap, dbm, id)

C7_ExistsStep ==
    \A id \in Ids :
       ArticleExistsIn(backend', db', heap', dbm', id)
          <=> \/ Exists(id)
              \/ /\ PostStep
                 /\ Accepted(last')
                 /\ getHeader(StepArticle, "Message-ID") = id

C7_ArticleExistsIffPosted ==
    /\ \A id \in Ids : ~Exists(id)
    /\ [][C7_ExistsStep]_vars

\* after a stored post, a post carrying another Message-ID was diverted:
\* the first id exists, the diverted one does not
C7_Witness ==
    /\ nposts = 2
    /\ last.diverted
    /\ ~Exists(getHeader(LastArticle, "Message-ID"))
    /\ \E id \in Ids : Exists(id)

(***************************************************************************)
(* C8.  groupInfo(g) on a known group returns (name, count, high, low,     *)
(* flags) with count the number of articles stored in g, high the greatest *)
(* stored index and low the smallest; after the first successful post to   *)
(* an empty group it returns count = 1 and high = low = 1.                 *)
(***************************************************************************)
C8_Info ==
    \A g \in Known :
       LET r    == GroupRequestIn(backend, db, dbm, g)
           keys == SeqToSet(Indices(g))
       IN  /\ r.kind = "succeed"
           /\ r.val[1] = g
           /\ r.val[2] = Cardinality(keys)
           /\ keys # {} => r.val[3] = SetMax(keys) /\ r.val[4] = SetMin(keys)

C8_FirstPostStep ==
    \A g \in Known :
       (PostStep /\ Accepted(last') /\ Named(g) /\ Len(Indices(g)) = 0)
       => /\ InfoAfter(g)[2] = 1
          /\ InfoAfter(g)[3] = 1
          /\ InfoAfter(g)[4] = 1

C8_GroupInfoCounts == []C8_Info /\ [][C8_FirstPostStep]_vars

(***************************************************************************)
(* C9.  After a successful post to a recognized unmoderated group,         *)
(* getBody(group, i) at the index i the article was filed under returns    *)
(* (i, Message-ID, body) with body the text that follows the first blank   *)
(* line of the posted message, and later posts do not change that.         *)
(***************************************************************************)
RECURSIVE AfterBlank(_)
\* the lines that follow the first empty one
AfterBlank(lines) ==
    IF Len(lines) = 0 THEN <<>>
    ELSE IF lines[1] = "" THEN Tail(lines)
    ELSE AfterBlank(Tail(lines))

TextAfterBlankLine(message) ==
    Join("\r\n", AfterBlank(SplitSep(message, "\r\n")))

C9_BodyStep ==
    \A g \in Known :
       LET before == Indices(g)
           after  == IndicesIn(backend', db', dbm', g)
       IN  /\ \A j \in 1..Len(before) :
                BodyRequestIn(backend', db', heap', dbm', g, before[j])
                   = BodyRequestIn(backend, db, heap, dbm, g, before[j])
           /\ (PostStep /\ Accepted(last') /\ ~Moderated(g))
              => \A j \in (Len(before) + 1)..Len(after) :
                    BodyRequestIn(backend', db', heap', dbm', g, after[j])
                       = Succeed(<<after[j],
                                   getHeader(StepArticle, "Message-ID"),
                                   TextAfterBlankLine(last'.message)>>)

C9_BodyRoundTrip == [][C9_BodyStep]_vars

(***************************************************************************)
(* C10.  xover(group, None, None) on a known group returns one row for     *)
(* every article stored in the group, in ascending index order, each row   *)
(* the index followed by the 8 columns of OVERVIEW_FMT in that order, the  *)
(* empty string standing for a header the article lacks.                   *)
(***************************************************************************)
Column(a, name) ==
    IF DictHas(a.headers, Lower(name))
    THEN DictGet(a.headers, Lower(name))[2]
    ELSE ""

RECURSIVE SortedSeq(_)
SortedSeq(S) ==
    IF S = {} THEN <<>> ELSE <<SetMin(S)>> \o SortedSeq(S \ {SetMin(S)})

OverviewRows(g) ==
    LET idx == SortedSeq(SeqToSet(Indices(g)))
    IN  [ j \in 1..Len(idx) |->
            <<Str(idx[j])>> \o
            [ k \in 1..8 |-> Column(Stored(g, idx[j]), OVERVIEW_FMT[k]) ] ]

C10_XoverAll ==
    \A g \in Known :
       XoverRequestIn(backend, db, heap, dbm, strKeys, g, None, None)
          = Succeed(OverviewRows(g))

(***************************************************************************)
(* C11.  For every known group and every pair (low, high), each bound      *)
(* possibly absent, xhdr(group, low, high, header) returns an entry for    *)
(* exactly the stored indices i with (low absent or i >= low) and (high    *)
(* absent or i <= high), the index set xover(group, low, high) returns.    *)
(***************************************************************************)
\* the range arguments: absent, or a number around the stored indices
RangeArgs == {None} \cup { Some(n) : n \in 0..(MaxPosts + 1) }

\* the builds a state stands for: PickleStorage runs the same on both
PyBuilds == IF backend = "pickle" THEN BOOLEAN ELSE {strKeys}

XhdrRequestIn(b, d, h, t, sk, g, low, high, header) ==
    IF b = "pickle" THEN PickleXhdrRequest(d, h, sk, g, low, high, header)
    ELSE ShelfXhdrRequest(t, sk, g, low, high, header)

\* the indices a successful xhdr result lists / a successful xover result
XhdrIndices(r) == { r.val[j][1] : j \in 1..Len(r.val) }
XoverIndices(r) == { r.val[j][1] : j \in 1..Len(r.val) }

C11_XhdrRange ==
    \A g \in Known : \A low \in RangeArgs, high \in RangeArgs :
       \A sk \in PyBuilds :
          LET hdr  == XhdrRequestIn(backend, db, heap, dbm, sk, g,
                                    low, high, "Subject")
              over == XoverRequestIn(backend, db, heap, dbm, sk, g, low, high)
              want == { i \in SeqToSet(Indices(g)) : InRange(i, low, high) }
          IN  /\ hdr.kind = "succeed"
              /\ XhdrIndices(hdr) = want
              /\ over.kind = "succeed"
                    => XoverIndices(over) = { Str(i) : i \in want }

(***************************************************************************)
(* C12.  getArticle, getHead and getBody called with an unknown group fail *)
(* with a group-not-found error, and called with a known group and an      *)
(* index that holds no article fail with an article-not-found error, the   *)
(* two error kinds being distinguishable.                                  *)
(***************************************************************************)
ArticleRequestIn(b, d, h, t, g, i, id) ==
    IF b = "pickle" THEN PickleArticleRequest(d, h, g, i, id)
    ELSE ShelfArticleRequest(t, g, i, id)

HeadRequestIn(b, d, h, t, g, i) ==
    IF b = "pickle" THEN PickleHeadRequest(d, h, g, i)
    ELSE ShelfHeadRequest(t, g, i)

\* the three retrievals by group and index
Retrievals(g, i) ==
    { ArticleRequestIn(backend, db, heap, dbm, g, i, None),
      HeadRequestIn(backend, db, heap, dbm, g, i),
      BodyRequestIn(backend, db, heap, dbm, g, i) }

\* the failure is of the group-not-found / article-not-found kind
GroupNotFound(r) ==
    /\ r.kind = "fail"
    /\ IF backend = "pickle" THEN r.val = ERR_NOGROUP
       ELSE PyTo(r.val, Len("No such group")) = "No such group"

ArticleNotFound(r) ==
    /\ r.kind = "fail"
    /\ IF backend = "pickle" THEN r.val = ERR_NOARTICLE
       ELSE PyTo(r.val, Len("No such article")) = "No such article"

\* the indices a retrieval may be asked for
IndexArgs == 0..(MaxPosts + 1)

C12_NotFoundKinds ==
    /\ \A n \in Names \ Known : \A i \in IndexArgs :
          \A r \in Retrievals(n, i) : GroupNotFound(r) /\ ~ArticleNotFound(r)
    /\ \A g \in Known : \A i \in IndexArgs \ SeqToSet(Indices(g)) :
          \A r \in Retrievals(g, i) : ArticleNotFound(r) /\ ~GroupNotFound(r)

(***************************************************************************)
(* C13.  groupInfo, listGroupArticles, xover and xhdr called with a name   *)
(* that is not a known group produce a failed Deferred of the              *)
(* group-not-found kind, never a successful (for instance empty) result.   *)
(***************************************************************************)
ListGroupRequestIn(b, d, t, g) ==
    IF b = "pickle" THEN PickleListGroupRequest(d, g)
    ELSE ShelfListGroupRequest(t, g)

\* the results of the four operations on the name n
GroupOperations(n) ==
    { GroupRequestIn(backend, db, dbm, n),
      ListGroupRequestIn(backend, db, dbm, n) }
    \cup { XoverRequestIn(backend, db, heap, dbm, sk, n, low, high) :
              sk \in PyBuilds, low \in RangeArgs, high \in RangeArgs }
    \cup { XhdrRequestIn(backend, db, heap, dbm, sk, n, low, high, "Subject") :
              sk \in PyBuilds, low \in RangeArgs, high \in RangeArgs }

C13_UnknownGroupFails ==
    \A n \in Names \ Known : \A r \in GroupOperations(n) : GroupNotFound(r)

(***************************************************************************)
(* C14.  getArticle with a messageId on the snapshot backend               *)
(* (PickleStorage), which does not support it, returns a failed Deferred   *)
(* of the Unimplemented kind and does not raise into the caller.           *)
(***************************************************************************)
Unimplemented(r) == r.kind = "fail" /\ r.val = "NotImplementedError"

C14_UnsupportedFailsAsync ==
    backend = "pickle"
    => \A n \in Names, i \in IndexArgs, id \in Ids :
          LET r == PickleArticleRequest(db, heap, n, i, Some(id))
          IN  r.kind # "raise" /\ Unimplemented(r)

(***************************************************************************)
(* C15.  In the keyed-store backend (NewsShelf), getArticle(group, index,  *)
(* messageId) with the Message-ID of a posted article ignores index and    *)
(* returns the article whose Message-ID is messageId together with its     *)
(* index in the specified group, also for a cross-posted article; with a   *)
(* Message-ID that was never posted it fails with article-not-found.       *)
(***************************************************************************)
\* the indices of group g that hold an article with Message-ID id
IndicesOf(g, id) ==
    { i \in SeqToSet(Indices(g)) : getHeader(Stored(g, i), "Message-ID") = id }

C15_ArticleByMessageId ==
    backend = "shelf"
    => \A id \in Ids : \A i \in IndexArgs :
          IF Exists(id)
          THEN \A g \in Known :
                  IndicesOf(g, id) # {}
                  => LET r == ShelfArticleRequest(dbm, g, i, Some(id))
                     IN  /\ r.kind = "succeed"
                         /\ r.val[2] = id
                         /\ r.val[1] \in IndicesOf(g, id)
          ELSE \A g \in Names :
                  ArticleNotFound(ShelfArticleRequest(dbm, g, i, Some(id)))

(***************************************************************************)
(* C16.  After a successful post accepted by the groups g1..gk at the      *)
(* indices i1..ik, the article's Xref header value is the host name        *)
(* followed by exactly the k pairs gj:ij, one per accepting group, each    *)
(* preceded by a single space, and by no pair of any other group.          *)
(***************************************************************************)
\* the Article object the step's postRequest call leaves behind
PostedArticle ==
    IF backend = "pickle"
    THEN PicklePostRequest(db, heap, datafile, StepArticle).article
    ELSE ShelfPostRequest(dbm, StepArticle).article

\* the indices the step added to group g
NewIndices(g) ==
    SeqToSet(IndicesIn(backend', db', dbm', g)) \ SeqToSet(Indices(g))

C16_XrefStep ==
    (PostStep /\ Accepted(last'))
    => LET x      == getHeader(PostedArticle, "Xref")
           tokens == PySplit(x)
           groups == { g \in Known : NewIndices(g) # {} }
       IN  /\ x = Join(" ", tokens)
           /\ Len(tokens) = 1 + Cardinality(groups)
           /\ tokens[1] = HostName
           /\ { tokens[j] : j \in 2..Len(tokens) }
                 = UNION { { g \o ":" \o Str(i) : i \in NewIndices(g) } :
                              g \in groups }

C16_XrefFormat == [][C16_XrefStep]_vars

(***************************************************************************)
(* C17.  listGroups returns exactly one 4-tuple (name, maxIndex, minIndex, *)
(* flags) for every known group, maxIndex being the highest article index  *)
(* assigned in the group (the high value groupInfo reports for it) and     *)
(* minIndex the lowest.                                                    *)
(***************************************************************************)
\* the results listRequest can give in this state
ListRequestsIn(b, d, t) ==
    IF b = "pickle" THEN { PickleListRequest(d) }
    ELSE { ShelfListRequest(t, keys) : keys \in Orders(DOMAIN t.groups) }

\* the tuple names group g, as text or as the bytes of the text
NamesGroup(tuple, g) == tuple[1] = g \/ tuple[1] = Encode(g)

C17_ListGroups ==
    \A r \in ListRequestsIn(backend, db, dbm) :
       /\ r.kind = "succeed"
       /\ Len(r.val) = Cardinality(Known)
       /\ \A g \in Known :
             \E j \in 1..Len(r.val) :
                LET keys == SeqToSet(Indices(g))
                IN  /\ NamesGroup(r.val[j], g)
                    /\ r.val[j][2] = GroupRequestIn(backend, db, dbm, g).val[3]
                    /\ keys # {} => /\ r.val[j][2] = SetMax(keys)
                                    /\ r.val[j][3] = SetMin(keys)


(***************************************************************************)
(* C18: in the relational backend, whatever the interleaving of the post   *)
(* transactions in flight on one group, no two committed postings rows of  *)
(* a group carry the same article_index.                                   *)
(***************************************************************************)
\* the transactions that are between their first statement and their end
InFlight == { i \in 1..Len(txs) : txs[i].pc \in {"indices", "article", "postings"} }

\* the (group_id, article_index) pairs transaction i is about to insert
Targets(i) == { txs[i].indices[k] : k \in 1..Len(txs[i].indices) }

UniqueIn(q, col) ==
    \A i, j \in 1..Len(q) : i # j => q[i][col] # q[j][col]

UniqueIndexes(s) ==
    /\ UniqueIn(s.groups, "name")
    /\ UniqueIn(s.articles, "message_id")
    /\ UniqueIn(s.postings, "article_id")

\* the rows of table q2 that were added to table q
Added(q, q2) == { q2[j] : j \in (Len(q) + 1)..Len(q2) }

\* transaction i, its articles row inserted, ends in this step
Ends(i) == txs[i].pc = "postings" /\ txs'[i].pc = "done"

C19_EndStep ==
    \A i \in 1..Len(txs) :
        Ends(i) =>
            /\ txs'[i].kind = "succeed"
            /\ Len(sql'.articles) = Len(sql.articles) + 1
            /\ sql'.articles[Len(sql'.articles)].message_id
                   = txs[i].pend[1].message_id
            /\ Added(sql.postings, sql'.postings)
                   = { [ group_id      |-> txs[i].result[k][2],
                         article_id    |-> txs[i].pend[1].article_id,
                         article_index |->
                             NextArticleIndex(sql, txs[i].result[k][2]) ]
                       : k \in 1..Len(txs[i].result) }
            /\ Cardinality(Added(sql.postings, sql'.postings))
                   = Len(txs[i].result)

C19_FailStep ==
    \A i \in 1..Len(txs') :
        (txs'[i].pc = "done" /\ txs'[i].kind # "succeed")
            => /\ sql'.groups = sql.groups
               /\ sql'.articles = sql.articles
               /\ sql'.postings = sql.postings

C19_PostCommitsRows ==
    [][backend = "sql" =>
          C19_EndStep /\ C19_FailStep /\ UniqueIndexes(sql')]_vars

(***************************************************************************)
(* C20: in the pickle backend, when a post has returned success the file   *)
(* holds the whole structure in memory (groups, articles with their Xref   *)
(* header, moderators) as it is at that moment; so it does right after the *)
(* storage was opened on a path without a file.                            *)
(***************************************************************************)
\* the file holds the mapping and every Article object it refers to
FileIsMemory == datafile.db = db /\ datafile.heap = heap

C20_FileIsMemoryAfterPost ==
    (backend = "pickle" /\ (nposts = 0 \/ last.kind = "succeed"))
        => FileIsMemory

\* a second post was stored: the file holds both articles, the one stored
\* last with the Xref header put on it after it was stored in its groups
C20_Witness ==
    /\ backend = "pickle"
    /\ nposts = 2
    /\ Accepted(last)
    /\ Len(datafile.heap) = 2
    /\ getHeader(datafile.heap[2], "Xref") # ""
    /\ datafile.db["moderators"] = db["moderators"]

(***************************************************************************)
(* C21: PickleStorage instances constructed on one path in one process     *)
(* refer to one structure in memory: after every post through any of them  *)
(* every read operation returns the same on all of them, and the groups    *)
(* and moderators handed to a later constructor change nothing.            *)
(***************************************************************************)
\* the results of the read operations on the mapping d and the objects h
Reads(d, h) ==
    [ list      |-> PickleListRequest(d),
      group     |-> [g \in Names |-> PickleGroupRequest(d, g)],
      listGroup |-> [g \in Names |-> PickleListGroupRequest(d, g)],
      xover     |-> [g \in Names |-> PickleXoverRequest(d, h, g, None, None)],
      exists    |-> [id \in Ids |-> PickleArticleExistsRequest(d, h, id)],
      head      |-> [g \in Names |-> [i \in IndexArgs |->
                        PickleHeadRequest(d, h, g, i)]],
      body      |-> [g \in Names |-> [i \in IndexArgs |->
                        PickleBodyRequest(d, h, g, i)]] ]

\* what self.db of instance i refers to after the step
StoreDbNext(i) == IF stores'[i].shared THEN db' ELSE stores'[i].db
StoreHeapNext(i) == IF stores'[i].shared THEN heap' ELSE stores'[i].heap

\* instance i reads what instance 1 reads: they hold equal structures, or
\* else every read operation returns the same on both
C21_Step ==
    /\ \A i \in 2..Len(stores') :
          \/ /\ StoreDbNext(i) = StoreDbNext(1)
             /\ StoreHeapNext(i) = StoreHeapNext(1)
          \/ Reads(StoreDbNext(i), StoreHeapNext(i))
                 = Reads(StoreDbNext(1), StoreHeapNext(1))
    /\ Len(stores') > Len(stores) => UNCHANGED <<db, heap, datafile>>

C21_InstancesShare == [][backend = "pickle" => C21_Step]_vars

\* two instances, and two articles stored by posts through them
C21_Witness ==
    /\ backend = "pickle"
    /\ Len(stores) = 2
    /\ nposts = 2
    /\ Accepted(last)
    /\ Len(StoreHeap(2)) = 2

(***************************************************************************)
(* C22: a post diverted for moderation hands the article to sendmail       *)
(* exactly once, addressed to every moderator registered for any of the    *)
(* groups its Newsgroups header names, and the result of the post is the   *)
(* outcome of that send.                                                   *)
(***************************************************************************)
\* the moderators registered for the groups the article names
ModeratorsNamed(a) ==
    UNION { ModeratorsOf(backend, db, dbm, TargetsOf(a)[j]) :
               j \in 1..Len(TargetsOf(a)) }

C22_DivertedStep ==
    (PostStep /\ last'.diverted)
    => /\ Len(sent') = Len(sent) + 1
       /\ sent'[Len(sent')].msg.payload = Parsed[last'.message][now']
       /\ SeqToSet(sent'[Len(sent')].to)
              = ModeratorsNamed(Parsed[last'.message][now'])
       /\ last'.val = "sendmail"
       /\ last'.kind \in {"succeed", "fail"}

C22_DivertedToAllModerators == [][C22_DivertedStep]_vars

(***************************************************************************)
(* C23: every article the constructor builds has non-empty Message-ID,     *)
(* Bytes, Lines and Date headers: a header the header block gives with a   *)
(* non-empty value keeps that value, a missing one is synthesized          *)
(* (Message-ID in angle brackets, Bytes the length of the body, Lines the  *)
(* number of newline characters in the body).                              *)
(***************************************************************************)
\* the messages postRequest has built an Article from, the last one of
\* PickleStorage and NewsShelf and all of NewsStorageAugmentation
Built ==
    (IF last.kind = "none" THEN {} ELSE {last.message})
        \cup { txs[i].message : i \in 1..Len(txs) }

HeadOf(message) == PyTo(message, Cleave(message))
BodyOf(message) == PyFrom(message, Cleave(message) + 4)

\* the headers as the lines of the header block give them
Given ==
    [ message \in Messages |->
        [ exc |-> "", body |-> BodyOf(message),
          headers |-> ParseHead(SplitSep(HeadOf(message), "\r\n"), <<>>,
                                FALSE, "").headers ] ]

Defaulted == {"Message-ID", "Bytes", "Lines", "Date"}

\* the value the constructor gives a header the block does not give
WellSynthesized(name, value, body) ==
    CASE name = "Message-ID" ->
            /\ Len(value) > 2
            /\ PySlice(value, 0, 1) = "<"
            /\ PyFrom(value, Len(value) - 1) = ">"
      [] name = "Bytes" -> value = Str(Len(body))
      [] name = "Lines" -> value = Str(Count(body, "\n"))
      [] OTHER -> value # ""

C23_Defaults(message) ==
    LET a == Parsed[message][now]
    IN  a.exc = "" =>
          \A name \in Defaulted :
             /\ getHeader(a, name) # ""
             /\ IF getHeader(Given[message], name) # ""
                THEN getHeader(a, name) = getHeader(Given[message], name)
                ELSE WellSynthesized(name, getHeader(a, name), a.body)

C23_ArticleHasDefaults == \A message \in Built : C23_Defaults(message)

\* an article was built from a block that gives all four headers after one
\* was built from a block that gives none of them
C23_Witness ==
    /\ nposts = 2
    /\ last.message = MsgSameId
    /\ Parsed[MsgSameId][now].exc = ""
    /\ \E g \in Known : \E i \in SeqToSet(Indices(g)) :
          getHeader(Stored(g, i), "Bytes") = "11"

(***************************************************************************)
(* C24: for an article built from a header block that lacks Message-ID,    *)
(* Bytes, Lines or Date, building an article again from textHeaders() of   *)
(* the first and the same body gives the same header names, values and     *)
(* order: nothing changes and nothing new is synthesized.                  *)
(***************************************************************************)
\* the article built from the serialized headers of the article built from
\* message at time t (the article itself where it cannot be serialized)
Reparsed ==
    [ message \in Messages |-> [ t \in Times |->
        LET a == Parsed[message][t]
        IN  IF a.exc # "" \/ textHeadersRaises(a) THEN a
            ELSE Article(textHeaders(a), a.body, t) ] ]

LacksDefault(message) ==
    \E name \in Defaulted : getHeader(Given[message], name) = ""

C24_Reparse(message) ==
    LET a == Parsed[message][now]
    IN  (a.exc = "" /\ ~textHeadersRaises(a) /\ LacksDefault(message))
           => /\ Reparsed[message][now].exc = ""
              /\ Reparsed[message][now].headers = a.headers

C24_ReparseIsNoOp == \A message \in Built : C24_Reparse(message)

(***************************************************************************)
(* C25: a PickleStorage and a NewsShelf that start from the same           *)
(* unmoderated groups and are given the same posts return equal results    *)
(* for groupRequest, listRequest, listGroupRequest and xoverRequest on     *)
(* every group in every reachable state, a group still empty included.     *)
(***************************************************************************)
\* the groups of the pair
PairGroups == SeqToSet(db["groups"])

C25_Equivalent ==
    backend = "both" =>
       /\ \A g \in PairGroups :
             /\ PickleGroupRequest(db, g) = ShelfGroupRequest(dbm, g)
             /\ PickleListGroupRequest(db, g) = ShelfListGroupRequest(dbm, g)
             /\ PickleXoverRequest(db, heap, g, None, None)
                   = ShelfXoverRequest(dbm, strKeys, g, None, None)
       /\ \E keys \in Orders(DOMAIN dbm.groups) :
             PickleListRequest(db) = ShelfListRequest(dbm, keys)

(***************************************************************************)
(* C26: the copy of an article a backend holds after a successful post     *)
(* has the Xref header: for every group g that accepted it and the index i *)
(* it got there, the Xref column of xover(g, i, i) and the header text of  *)
(* head(g, i) carry the Xref value built for the post, which names every   *)
(* (group, index) the article was filed under.                             *)
(***************************************************************************)
\* position of the Xref column in a row of xoverRequest: the index, then the
\* columns of OVERVIEW_FMT
XrefColumn == 1 + Len(OVERVIEW_FMT)

C26_StoredStep ==
    (PostStep /\ Accepted(last'))
    => LET x == getHeader(PostedArticle, "Xref")
       IN  \A g \in Known : \A i \in NewIndices(g) :
              LET xo == XoverRequestIn(backend', db', heap', dbm', strKeys',
                                       g, Some(i), Some(i))
                  hd == HeadRequestIn(backend', db', heap', dbm', g, i)
              IN  /\ \E j \in 2..Len(PySplit(x)) :
                        PySplit(x)[j] = g \o ":" \o Str(i)
                  /\ xo.kind = "succeed"
                  /\ Len(xo.val) = 1
                  /\ xo.val[1][XrefColumn] = x
                  /\ hd.kind = "succeed"
                  /\ \E k \in 1..Len(SplitSep(hd.val[3], "\r\n")) :
                        SplitSep(hd.val[3], "\r\n")[k] = "Xref: " \o x

C26_StoredCopyHasXref == [][C26_StoredStep]_vars

(***************************************************************************)
(* C27: NewsShelf.postRequest writes the Message-IDs entry after the       *)
(* counter and the article mapping of every accepting group; so in every   *)
(* state the tables pass through, between the writes of a post too, every  *)
(* (group, index) pair listed under a Message-ID designates a stored       *)
(* article with that Message-ID, and a diverted or failed post adds no     *)
(* entry.                                                                  *)
(***************************************************************************)
\* every pair the Message-IDs table of t lists designates a stored article
\* whose Message-ID is the key
IndexSound(t) ==
    \A key \in DOMAIN t.MessageIDs :
       \A j \in 1..Len(t.MessageIDs[key]) :
          LET g == Encode(t.MessageIDs[key][j][1])
              i == PyInt(t.MessageIDs[key][j][2])
          IN  /\ g \in DOMAIN t.groups
              /\ DictHas(t.groups[g].articles, i)
              /\ Encode(getHeader(DictGet(t.groups[g].articles, i),
                                  "Message-ID")) = key

C27_WritesStep ==
    (PostStep /\ backend = "shelf")
    => LET ws == ShelfPostWrites(dbm, StepArticle)
       IN  /\ \A j \in 1..Len(ws) : IndexSound(ws[j])
           /\ \A j \in 1..(Len(ws) - 1) : ws[j].MessageIDs = dbm.MessageIDs
           /\ IF Len(ws) = 0 THEN dbm' = dbm ELSE dbm' = ws[Len(ws)]
           /\ Accepted(last') <=> Len(ws) > 0
           /\ IndexSound(dbm')

C27_IndexWrittenLast == [][C27_WritesStep]_vars

\* a post was filed in two groups and then listed under its Message-ID
C27_Witness ==
    /\ backend = "shelf"
    /\ Accepted(last)
    /\ last.message = MsgCross
    /\ Encode("<1@h>") \in DOMAIN dbm.MessageIDs
    /\ Len(dbm.MessageIDs[Encode("<1@h>")]) = 2

(***************************************************************************)
(* C28: in PickleStorage and NewsShelf the moderation decision comes       *)
(* before any group is looked up and depends on the moderator registry and *)
(* the Approved header only: a post without Approved that names a group    *)
(* with a registered moderator is diverted to sendmail, whether or not the *)
(* groups it names are known, so it never gives "No groups carried" and    *)
(* stores nothing.                                                         *)
(***************************************************************************)
C28_ModerationStep ==
    (/\ PostStep
     /\ StepArticle.exc = ""
     /\ ~HasHeader(StepArticle, "Approved")
     /\ NamesModerated(StepArticle))
    => /\ last'.diverted
       /\ Len(sent') = Len(sent) + 1
       /\ ~NoGroupsCarried(last')
       /\ db' = db
       /\ heap' = heap
       /\ stores' = stores
       /\ dbm' = dbm

C28_ModerationBeforeLookup == [][C28_ModerationStep]_vars

(***************************************************************************)
(* C29: in every state of PickleStorage the flags groupRequest reports for *)
(* a group are the flags listRequest reports for it: 'm' when the group    *)
(* has an entry in db['moderators'], 'y' otherwise.                        *)
(***************************************************************************)
C29_FlagsAgree ==
    backend = "pickle"
    => LET rows == PickleListRequest(db).val
       IN  \A j \in 1..Len(rows) :
              LET info == PickleGroupRequest(db, rows[j][1])
              IN  /\ info.kind = "succeed"
                  /\ info.val[5] = rows[j][4]
                  /\ info.val[5] = (IF rows[j][1] \in DOMAIN db["moderators"]
                                    THEN "m" ELSE "y")
=============================================================================
